---- MODULE Spec2Model ----
(***************************************************************************)
(* Model of the XLM arbitrage bot: the detector (arbitrage_detector.py),   *)
(* the exchange client boundary (exchange_client.py) and the orchestrator  *)
(* (arbitrage_bot.py).                                                     *)
(*                                                                         *)
(* Python floats are modelled as exact rationals [n, d] in lowest terms;    *)
(* floating-point rounding is not modelled, and no input of the model puts *)
(* a profit exactly on a threshold, where rounding would decide.  Python   *)
(* strings are sequences of one-character strings so that formatting and   *)
(* split('/') are computed, not assumed.  Every Python value is a record:  *)
(* None, a string Str(chars), a number [n, d], a dict with its keys,       *)
(* Raise(name) for a raised exception and Return(v) for a returned list.   *)
(***************************************************************************)
EXTENDS Integers, Sequences, FiniteSets, TLC

\* ------------------------------------------------------------------------
\* Bounds of the model
\* ------------------------------------------------------------------------

\* Calls (find_opportunities or run_iteration) made on one detector.
MaxCalls == 2

\* ------------------------------------------------------------------------
\* Python values
\* ------------------------------------------------------------------------

None == [py |-> "None"]

Raise(e) == [raises |-> e]

IsRaise(v) == "raises" \in DOMAIN v

\* a list handed back by a call that did not raise
Return(v) == [returned |-> v]

\* A Python list, and a bool, held by a variable that may also hold None
List(s) == [list |-> s]

Bool(b) == [bool |-> b]

\* ------------------------------------------------------------------------
\* Float arithmetic, as exact rationals in lowest terms with d > 0
\* ------------------------------------------------------------------------

Abs(x) == IF x < 0 THEN -x ELSE x

RECURSIVE Gcd(_, _)
Gcd(a, b) == IF b = 0 THEN a ELSE Gcd(b, a % b)

Rat(n, d) ==
  LET g == Gcd(Abs(n), Abs(d))
      s == IF d < 0 THEN -1 ELSE 1
  IN  [n |-> (s * n) \div g, d |-> (s * d) \div g]

IsNumber(v) == DOMAIN v = {"n", "d"}

RAdd(x, y) == Rat(x.n * y.d + y.n * x.d, x.d * y.d)

RSub(x, y) == Rat(x.n * y.d - y.n * x.d, x.d * y.d)

RMul(x, y) == Rat(x.n * y.n, x.d * y.d)

\* x / y for y # 0 (the caller raises ZeroDivisionError when y = 0)
RDiv(x, y) == Rat(x.n * y.d, x.d * y.n)

RGe(x, y) == x.n * y.d >= y.n * x.d

RGt(x, y) == x.n * y.d > y.n * x.d

RIsZero(x) == x.n = 0

\* ------------------------------------------------------------------------
\* Strings
\* ------------------------------------------------------------------------

\* a Python str, from its characters
Str(chars) == [str |-> chars]

\* s + t
Concat(s, t) == Str(s.str \o t.str)

\* index of the first "/" in chars at or after i, or 0
RECURSIVE FindSlash(_, _)
FindSlash(chars, i) ==
  IF i > Len(chars) THEN 0
  ELSE IF chars[i] = "/" THEN i
  ELSE FindSlash(chars, i + 1)

\* the list chars.split('/'), as a sequence of character sequences
RECURSIVE SplitChars(_)
SplitChars(chars) ==
  LET i == FindSlash(chars, 1)
  IN  IF i = 0 THEN <<chars>>
      ELSE <<SubSeq(chars, 1, i - 1)>>
           \o SplitChars(SubSeq(chars, i + 1, Len(chars)))

\* s.split('/')
Split(s) ==
  LET parts == SplitChars(s.str)
  IN  [i \in 1..Len(parts) |-> Str(parts[i])]

\* ------------------------------------------------------------------------
\* config.py
\* ------------------------------------------------------------------------

MIN_PROFIT_PERCENTAGE == Rat(1, 2)

TRADE_AMOUNT_USD == 100

SYMBOL == Str(<<"X", "L", "M">>)

QUOTE_CURRENCIES == <<Str(<<"U", "S", "D", "T">>), Str(<<"U", "S", "D">>)>>

EXCHANGES == <<"binance", "kraken">>

\* ------------------------------------------------------------------------
\* exchange_client.py
\* ------------------------------------------------------------------------

\* ExchangeClient._format_pair: the pair as the exchange lists it, or None.
\* markets is the set of keys of self.exchange.markets.
_format_pair(markets, symbol, quote) ==
  LET pair == Concat(Concat(symbol, Str(<<"/">>)), quote)
      alt1 == Concat(symbol, quote)
      alt2 == Concat(Concat(symbol, Str(<<"_">>)), quote)
  IN  IF pair \in markets THEN pair
      ELSE IF alt1 \in markets THEN alt1
      ELSE IF alt2 \in markets THEN alt2
      ELSE None

\* ExchangeClient.get_ticker.  fetched is what self.exchange.fetch_ticker
\* does for the pair: Raise(..) or a ccxt ticker [bid, ask, last].  The keys
\* 'exchange', 'timestamp' and 'datetime' of the returned dict are read by
\* no code of the repository and are left out.
get_ticker(markets, fetched, symbol, quote) ==
  LET pair == _format_pair(markets, symbol, quote)
  IN  IF pair = None THEN None
      ELSE IF IsRaise(fetched) THEN None
      ELSE [symbol |-> pair, bid |-> fetched.bid, ask |-> fetched.ask,
            last |-> fetched.last]

\* ExchangeClient.place_market_order: the order, or None.  dry_run is
\* Config.DRY_RUN; created is what self.exchange.create_market_order does:
\* Raise(..) or Created.
place_market_order(dry_run, markets, symbol, quote, side, amount, created) ==
  LET order == [side |-> side, amount |-> amount]
  IN  IF dry_run THEN order
      ELSE IF _format_pair(markets, symbol, quote) = None THEN None
      ELSE IF IsRaise(created) THEN None
      ELSE order

\* ------------------------------------------------------------------------
\* arbitrage_detector.py
\* ------------------------------------------------------------------------

\* ArbitrageOpportunity.__init__; now is the reading of datetime.now()
ArbitrageOpportunity(buy_exchange, sell_exchange, symbol, quote, buy_price, sell_price, profit_percentage, estimated_profit, now) ==
  [buy_exchange |-> buy_exchange, sell_exchange |-> sell_exchange,
   symbol |-> symbol, quote |-> quote,
   buy_price |-> buy_price, sell_price |-> sell_price,
   profit_percentage |-> profit_percentage,
   estimated_profit |-> estimated_profit,
   timestamp |-> now]

\* (mutant: the fee of one leg only)
fee_percentage_one_leg == Rat(1, 10)

\* fee_percentage = 0.2
fee_percentage == Rat(1, 5)

\* the 0.1% fee of each leg, 0.001
leg_fee_rate == Rat(1, 1000)

\* profit_percentage = ((sell_price - buy_price) / buy_price * 100) - fee
ProfitPercentage(buy_price, sell_price) ==
  RSub(RMul(RDiv(RSub(sell_price, buy_price), buy_price), Rat(100, 1)),
       fee_percentage)

\* (mutant: the comparison the wrong way round)
MeetsThresholdInverted(profit_percentage, min_profit_percentage) ==
  RGe(min_profit_percentage, profit_percentage)

\* (mutant: the test reads Config.MIN_PROFIT_PERCENTAGE, not the detector's)
MeetsConfigThreshold(profit_percentage, min_profit_percentage) ==
  RGe(profit_percentage, MIN_PROFIT_PERCENTAGE)

\* if profit_percentage >= self.min_profit_percentage
MeetsThreshold(profit_percentage, min_profit_percentage) ==
  RGe(profit_percentage, min_profit_percentage)

\* estimated profit of the reference trade, net of both legs' fees
EstimatedProfit(buy_price, sell_price) ==
  LET trade_amount_coins == RDiv(Rat(TRADE_AMOUNT_USD, 1), buy_price)
      gross == RMul(RSub(sell_price, buy_price), trade_amount_coins)
      buy_fee == RMul(Rat(TRADE_AMOUNT_USD, 1), leg_fee_rate)
      sell_fee == RMul(RMul(trade_amount_coins, sell_price), leg_fee_rate)
  IN  RSub(gross, RAdd(buy_fee, sell_fee))

\* The exceptions the except clause of _check_opportunity catches.
Caught == {"KeyError", "TypeError", "ZeroDivisionError"}

\* The body of the try block of _check_opportunity: an ArbitrageOpportunity,
\* None, or Raise(e) for the exception e the body raises.
CheckBody(min_profit_percentage, now, buy_exchange, sell_exchange, buy_ticker, sell_ticker) ==
  IF "ask" \notin DOMAIN buy_ticker THEN Raise("KeyError")
  ELSE IF "bid" \notin DOMAIN sell_ticker THEN Raise("KeyError")
  ELSE
    LET buy_price == buy_ticker.ask
        sell_price == sell_ticker.bid
    IN  IF buy_price = None \/ sell_price = None THEN None
        ELSE IF ~IsNumber(buy_price) \/ ~IsNumber(sell_price)
          THEN Raise("TypeError")
        ELSE IF RIsZero(buy_price) THEN Raise("ZeroDivisionError")
        ELSE
          LET profit_percentage == ProfitPercentage(buy_price, sell_price)
          IN  IF MeetsThreshold(profit_percentage, min_profit_percentage)
              THEN
                IF "symbol" \notin DOMAIN buy_ticker THEN Raise("KeyError")
                ELSE
                  LET parts == Split(buy_ticker.symbol)
                  IN  IF Len(parts) < 2 THEN Raise("IndexError")
                      ELSE ArbitrageOpportunity(
                             buy_exchange, sell_exchange, parts[1], parts[2],
                             buy_price, sell_price, profit_percentage,
                             EstimatedProfit(buy_price, sell_price), now)
              ELSE None

\* ArbitrageDetector._check_opportunity: the try block with its except clause
_check_opportunity(min_profit_percentage, now, buy_exchange, sell_exchange, buy_ticker, sell_ticker) ==
  LET r == CheckBody(min_profit_percentage, now, buy_exchange, sell_exchange,
                     buy_ticker, sell_ticker)
  IN  IF IsRaise(r) /\ r.raises \in Caught THEN None ELSE r

\* The pairs (exchange1, exchange2) in the order the nested loops of
\* find_opportunities visit them: exchange2 ranges over valid[i+1:].
RECURSIVE PairsFrom(_, _, _)
PairsFrom(valid, i, j) ==
  IF i > Len(valid) THEN <<>>
  ELSE IF j > Len(valid) THEN PairsFrom(valid, i + 1, i + 2)
  ELSE << <<valid[i], valid[j]>> >> \o PairsFrom(valid, i, j + 1)

\* (mutant: exchange2 ranges over valid[i:], so a venue meets itself)
RECURSIVE PairsFromSelf(_, _, _)
PairsFromSelf(valid, i, j) ==
  IF i > Len(valid) THEN <<>>
  ELSE IF j > Len(valid) THEN PairsFromSelf(valid, i + 1, i + 1)
  ELSE << <<valid[i], valid[j]>> >> \o PairsFromSelf(valid, i, j + 1)

ExchangePairsWithSelf(valid) == PairsFromSelf(valid, 1, 1)

\* for i, exchange1 in enumerate(valid): for exchange2 in valid[i+1:]
ExchangePairs(valid) == PairsFrom(valid, 1, 2)

\* The loop body of find_opportunities over the remaining pairs;
\* opportunities is the list built so far.  An exception raised by
\* _check_opportunity leaves the loop and the method.
RECURSIVE ScanPairs(_, _, _, _, _)
ScanPairs(min_profit_percentage, now, tickers, pairs, opportunities) ==
  IF pairs = <<>> THEN Return(opportunities)
  ELSE
    LET exchange1 == pairs[1][1]
        exchange2 == pairs[1][2]
        ticker1 == tickers[exchange1]
        ticker2 == tickers[exchange2]
        opp1 == _check_opportunity(min_profit_percentage, now,
                                   exchange1, exchange2, ticker1, ticker2)
        opp2 == _check_opportunity(min_profit_percentage, now,
                                   exchange2, exchange1, ticker2, ticker1)
    IN  IF IsRaise(opp1) THEN opp1
        ELSE IF IsRaise(opp2) THEN opp2
        ELSE ScanPairs(min_profit_percentage, now, tickers, Tail(pairs),
                       opportunities
                       \o (IF opp1 # None THEN <<opp1>> ELSE <<>>)
                       \o (IF opp2 # None THEN <<opp2>> ELSE <<>>))

\* valid_exchanges = [ex for ex, data in tickers.items() if data is not None]
\* (the dict's keys in insertion order, which is the order of EXCHANGES)
ValidExchanges(tickers) ==
  SelectSeq(EXCHANGES, LAMBDA ex : ex \in DOMAIN tickers /\ tickers[ex] # None)

\* ArbitrageDetector.find_opportunities, up to its return (or the exception
\* that leaves it): Return(list) or Raise(e).
find_opportunities(min_profit_percentage, now, tickers) ==
  LET valid_exchanges == ValidExchanges(tickers)
  IN  IF Len(valid_exchanges) < 2 THEN Return(<<>>)
      ELSE ScanPairs(min_profit_percentage, now, tickers,
                     ExchangePairs(valid_exchanges), <<>>)

\* (mutant: the counter is not updated)
FoundAfterForgotten(found, r) == found

\* (mutant: `=` for `+=`, the counter is set to the length of the list)
FoundAfterAssigned(found, r) ==
  IF IsRaise(r) \/ r.returned = <<>> THEN found ELSE Len(r.returned)

\* (mutant: counts the scans that found something, not the opportunities)
FoundAfterCountingScans(found, r) ==
  IF IsRaise(r) THEN found
  ELSE IF r.returned # <<>> THEN found + 1
  ELSE found

\* self.opportunities_found after find_opportunities ended with r
FoundAfter(found, r) ==
  IF IsRaise(r) THEN found
  ELSE IF r.returned # <<>> THEN found + Len(r.returned)
  ELSE found

\* (mutant: the division without the floor max(.., 1))
get_statistics_unguarded(found, executed) ==
  IF found = 0 THEN Raise("ZeroDivisionError")
  ELSE [opportunities_found |-> found,
        opportunities_executed |-> executed,
        success_rate |->
          RMul(RDiv(Rat(executed, 1), Rat(found, 1)), Rat(100, 1))]

\* ArbitrageDetector.get_statistics
get_statistics(found, executed) ==
  [opportunities_found |-> found,
   opportunities_executed |-> executed,
   success_rate |->
     RMul(RDiv(Rat(executed, 1),
               Rat(IF found > 1 THEN found ELSE 1, 1)),
          Rat(100, 1))]

\* Python's min of two numbers
RMin(x, y) == IF RGt(x, y) THEN y ELSE x

\* the safety margin of calculate_optimal_trade_amount, 0.98
safety_margin == Rat(49, 50)

\* ArbitrageDetector.calculate_optimal_trade_amount: the amount, a number; the
\* division by a buy_price of 0 raises
calculate_optimal_trade_amount(opportunity, buy_balance, sell_balance) ==
  IF RIsZero(opportunity.buy_price) THEN Raise("ZeroDivisionError")
  ELSE LET max_buyable ==
             RDiv(RMin(buy_balance, Rat(TRADE_AMOUNT_USD, 1)),
                  opportunity.buy_price)
           max_sellable == sell_balance
           optimal_amount == RMin(max_buyable, max_sellable)
       IN  RMul(optimal_amount, safety_margin)

\* ------------------------------------------------------------------------
\* arbitrage_bot.py: fetch_prices
\* ------------------------------------------------------------------------

\* The loop over Config.QUOTE_CURRENCIES of fetch_prices for one exchange,
\* from the i-th quote currency on: the first truthy ticker, else None.
\* markets are the exchange's markets, fetched what its fetch_ticker does.
RECURSIVE FirstTicker(_, _, _)
FirstTicker(markets, fetched, i) ==
  IF i > Len(QUOTE_CURRENCIES) THEN None
  ELSE
    LET ticker == get_ticker(markets, fetched, SYMBOL, QUOTE_CURRENCIES[i])
    IN  IF ticker # None THEN ticker
        ELSE FirstTicker(markets, fetched, i + 1)

\* fetch_prices: the tickers dict, one entry per exchange
fetch_prices(markets, fetched) ==
  [ex \in DOMAIN markets |-> FirstTicker(markets[ex], fetched[ex], 1)]

\* ------------------------------------------------------------------------
\* The environment: what an exchange lists and what its ticker says
\* ------------------------------------------------------------------------

USDT == QUOTE_CURRENCIES[1]

USD == QUOTE_CURRENCIES[2]

Slash == Str(<<"/">>)

Underscore == Str(<<"_">>)

\* "XLM/USDT", "XLM/USD", "XLMUSDT", "XLM_USDT"
PairSlashUSDT == Concat(Concat(SYMBOL, Slash), USDT)

PairSlashUSD == Concat(Concat(SYMBOL, Slash), USD)

PairPlainUSDT == Concat(SYMBOL, USDT)

PairUnderscoreUSDT == Concat(Concat(SYMBOL, Underscore), USDT)

\* ccxt tickers: bid, ask, last in USD; any of them may be None.
Quote(bid, ask) == [bid |-> bid, ask |-> ask, last |-> ask]

QuoteA == Quote(Rat(99, 1000), Rat(1, 10))

QuoteB == Quote(Rat(209, 2000), Rat(21, 200))

QuoteC == Quote(Rat(1008, 10000), Rat(101, 1000))

QuoteNoBid == Quote(None, Rat(1, 10))

QuoteNoAsk == Quote(Rat(209, 2000), None)

QuoteZero == Quote(Rat(0, 1), Rat(0, 1))

QuoteNegative == Quote(Rat(-1, 5), Rat(-1, 10))

\* a crossed top of book: bid above ask
QuoteCrossed == Quote(Rat(11, 100), Rat(1, 10))

\* bid = ask: bought and sold at the same price
QuoteFlat == Quote(Rat(1, 10), Rat(1, 10))

FetchedTickers ==
  {QuoteA, QuoteB, QuoteC, QuoteNoBid, QuoteNoAsk, QuoteZero, QuoteNegative,
   QuoteCrossed}

\* Ticker dicts as fetch_prices stores them (None after a failed fetch)
FetchedTickerValues ==
  {FirstTicker({PairSlashUSDT}, f, 1) :
     f \in FetchedTickers \cup {Raise("NetworkError")}}
  \cup {FirstTicker({PairSlashUSD}, f, 1) : f \in {QuoteA, QuoteB}}
  \cup {FirstTicker(m, QuoteA, 1) :
          m \in {{PairPlainUSDT}, {PairUnderscoreUSDT}}}

\* Ticker dicts a caller of find_opportunities may pass that lack a key
MalformedTickers ==
  {[symbol |-> PairSlashUSDT, ask |-> Rat(1, 10)],
   [bid |-> Rat(209, 2000), ask |-> Rat(1, 10)]}

TickerValues == FetchedTickerValues \cup MalformedTickers

ExchangeNames == {EXCHANGES[i] : i \in 1..Len(EXCHANGES)}

\* The mappings passed to find_opportunities
TickerInputs == [ExchangeNames -> TickerValues]

\* The arguments ArbitrageDetector is constructed with
InitArgs == {None, Rat(0, 1), Rat(4, 1)}

\* ------------------------------------------------------------------------
\* arbitrage_bot.py: display_prices, execute_arbitrage, run_iteration
\* ------------------------------------------------------------------------

\* display_prices formats bid, ask and last of every truthy ticker with
\* ':.6f', which raises TypeError on None.
display_prices(t) ==
  IF \E ex \in DOMAIN t :
       /\ t[ex] # None
       /\ (t[ex].bid = None \/ t[ex].ask = None \/ t[ex].last = None)
  THEN Raise("TypeError")
  ELSE None

\* (mutant: the sort without reverse=True, ascending)
RECURSIVE InsertAscending(_, _)
InsertAscending(sorted, opp) ==
  IF sorted = <<>> THEN <<opp>>
  ELSE IF RGt(Head(sorted).profit_percentage, opp.profit_percentage)
    THEN <<opp>> \o sorted
  ELSE <<Head(sorted)>> \o InsertAscending(Tail(sorted), opp)

RECURSIVE SortedAscending(_)
SortedAscending(opps) ==
  IF opps = <<>> THEN <<>>
  ELSE InsertAscending(SortedAscending(SubSeq(opps, 1, Len(opps) - 1)),
                       opps[Len(opps)])

\* opp placed into a list sorted by profit_percentage descending, behind the
\* elements whose profit_percentage is not smaller (the sort is stable)
RECURSIVE InsertByProfit(_, _)
InsertByProfit(sorted, opp) ==
  IF sorted = <<>> THEN <<opp>>
  ELSE IF RGt(opp.profit_percentage, Head(sorted).profit_percentage)
    THEN <<opp>> \o sorted
  ELSE <<Head(sorted)>> \o InsertByProfit(Tail(sorted), opp)

RECURSIVE SortedByProfit(_)
SortedByProfit(opps) ==
  IF opps = <<>> THEN <<>>
  ELSE InsertByProfit(SortedByProfit(SubSeq(opps, 1, Len(opps) - 1)),
                      opps[Len(opps)])

\* opportunities.sort(key=lambda x: x.profit_percentage, reverse=True)
SortOpportunities(opps) == SortedByProfit(opps)

\* (mutant: opportunities_executed is incremented before the orders are placed)
execute_arbitrage_counting_attempts(dry_run, mk, opportunity, buy_created, sell_created) ==
  LET trade_amount_coins ==
        RDiv(Rat(TRADE_AMOUNT_USD, 1), opportunity.buy_price)
      buy_order ==
        place_market_order(dry_run, mk[opportunity.buy_exchange],
                           opportunity.symbol, opportunity.quote, "buy",
                           trade_amount_coins, buy_created)
      sell_order ==
        place_market_order(dry_run, mk[opportunity.sell_exchange],
                           opportunity.symbol, opportunity.quote, "sell",
                           trade_amount_coins, sell_created)
      buy_placed == [exchange |-> opportunity.buy_exchange, side |-> "buy",
                     order |-> buy_order]
      sell_placed == [exchange |-> opportunity.sell_exchange, side |-> "sell",
                      order |-> sell_order]
  IN  IF buy_order = None
      THEN [orders |-> <<buy_placed>>, warned |-> FALSE, returned |-> FALSE,
            executed |-> 1]
      ELSE IF sell_order = None
      THEN [orders |-> <<buy_placed, sell_placed>>, warned |-> TRUE,
            returned |-> FALSE, executed |-> 1]
      ELSE [orders |-> <<buy_placed, sell_placed>>, warned |-> FALSE,
            returned |-> TRUE, executed |-> 1]

\* (mutant: both orders are placed before either result is looked at)
execute_arbitrage_both_legs(dry_run, mk, opportunity, buy_created, sell_created) ==
  LET trade_amount_coins ==
        RDiv(Rat(TRADE_AMOUNT_USD, 1), opportunity.buy_price)
      buy_order ==
        place_market_order(dry_run, mk[opportunity.buy_exchange],
                           opportunity.symbol, opportunity.quote, "buy",
                           trade_amount_coins, buy_created)
      sell_order ==
        place_market_order(dry_run, mk[opportunity.sell_exchange],
                           opportunity.symbol, opportunity.quote, "sell",
                           trade_amount_coins, sell_created)
      buy_placed == [exchange |-> opportunity.buy_exchange, side |-> "buy",
                     order |-> buy_order]
      sell_placed == [exchange |-> opportunity.sell_exchange, side |-> "sell",
                      order |-> sell_order]
  IN  IF buy_order = None
      THEN [orders |-> <<buy_placed, sell_placed>>, warned |-> FALSE,
            returned |-> FALSE, executed |-> 0]
      ELSE IF sell_order = None
      THEN [orders |-> <<buy_placed, sell_placed>>, warned |-> TRUE,
            returned |-> FALSE, executed |-> 0]
      ELSE [orders |-> <<buy_placed, sell_placed>>, warned |-> FALSE,
            returned |-> TRUE, executed |-> 1]

\* ArbitrageBot.execute_arbitrage: the orders it places, whether it logs the
\* manual-intervention warning, what it returns and what it adds to
\* opportunities_executed.
execute_arbitrage(dry_run, mk, opportunity, buy_created, sell_created) ==
  LET trade_amount_coins ==
        RDiv(Rat(TRADE_AMOUNT_USD, 1), opportunity.buy_price)
      buy_order ==
        place_market_order(dry_run, mk[opportunity.buy_exchange],
                           opportunity.symbol, opportunity.quote, "buy",
                           trade_amount_coins, buy_created)
      sell_order ==
        place_market_order(dry_run, mk[opportunity.sell_exchange],
                           opportunity.symbol, opportunity.quote, "sell",
                           trade_amount_coins, sell_created)
      buy_placed == [exchange |-> opportunity.buy_exchange, side |-> "buy",
                     order |-> buy_order]
      sell_placed == [exchange |-> opportunity.sell_exchange, side |-> "sell",
                      order |-> sell_order]
  IN  IF buy_order = None
      THEN [orders |-> <<buy_placed>>, warned |-> FALSE, returned |-> FALSE,
            executed |-> 0]
      ELSE IF sell_order = None
      THEN [orders |-> <<buy_placed, sell_placed>>, warned |-> TRUE,
            returned |-> FALSE, executed |-> 0]
      ELSE [orders |-> <<buy_placed, sell_placed>>, warned |-> FALSE,
            returned |-> TRUE, executed |-> 1]

\* What create_market_order may do
Created == [created |-> TRUE]

CreateOutcomes == {Created, Raise("InsufficientFunds")}

\* What fetch_ticker may do in an iteration of the bot
BotFetched ==
  {QuoteA, QuoteB, QuoteCrossed, QuoteNoBid, Raise("NetworkError")}

\* The markets an exchange of the bot may list
BotMarkets == {{PairSlashUSDT}, {PairSlashUSD}, {PairPlainUSDT}}

\* ------------------------------------------------------------------------
\* State
\* ------------------------------------------------------------------------

VARIABLES
  min_profit_percentage,   \* ArbitrageDetector.min_profit_percentage
  opportunities_found,     \* ArbitrageDetector.opportunities_found
  opportunities_executed,  \* ArbitrageDetector.opportunities_executed
  now,                     \* the reading of datetime.now()
  tickers,                 \* the mapping the last find_opportunities was given
  result,                  \* how the last find_opportunities ended
  calls,                   \* calls made so far
  returned_total,          \* sum of the lengths of the lists returned so far
  grew,                    \* what the last call added to opportunities_found
  repeated,                \* the last call got the tickers of the one before
  DRY_RUN,                 \* Config.DRY_RUN
  markets,                 \* the markets each ExchangeClient loaded
  iteration_count,         \* ArbitrageBot.iteration_count
  opportunities,           \* the list of the last run_iteration after its sort
  orders,                  \* the orders the last run_iteration placed
  warned,                  \* it logged 'manual intervention needed'
  execute_result,          \* what its execute_arbitrage returned, or None
  executions,              \* calls of execute_arbitrage so far
  successes,               \* those of them that returned True
  stats,                   \* what the last get_statistics call gave
  sizing                   \* the last calculate_optimal_trade_amount call

detector_vars ==
  <<min_profit_percentage, opportunities_found, opportunities_executed>>

scan_vars == <<tickers, result, returned_total, grew, repeated>>

bot_vars ==
  <<DRY_RUN, markets, iteration_count, opportunities, orders, warned,
    execute_result, executions, successes, stats>>

vars == <<detector_vars, now, scan_vars, calls, bot_vars, sizing>>

\* ArbitrageDetector.__init__: `min_profit_percentage or Config....`
DetectorInit(arg) ==
  /\ min_profit_percentage =
       (IF arg = None \/ RIsZero(arg) THEN MIN_PROFIT_PERCENTAGE ELSE arg)
  /\ opportunities_found = 0
  /\ opportunities_executed = 0

\* Nothing was called yet
NoCallYet ==
  /\ now = 0
  /\ tickers = None
  /\ result = None
  /\ calls = 0
  /\ returned_total = 0
  /\ grew = 0
  /\ repeated = FALSE
  /\ iteration_count = 0
  /\ opportunities = None
  /\ orders = <<>>
  /\ warned = FALSE
  /\ execute_result = None
  /\ executions = 0
  /\ successes = 0
  /\ stats = None
  /\ sizing = None

\* A detector constructed on its own, with any argument
Init ==
  /\ \E arg \in InitArgs : DetectorInit(arg)
  /\ DRY_RUN = TRUE
  /\ markets = [ex \in ExchangeNames |-> {PairSlashUSDT}]
  /\ NoCallYet

\* ArbitrageBot.__init__: ArbitrageDetector() and the two exchange clients,
\* each with the markets load_markets gave it
BotInit ==
  /\ DetectorInit(None)
  /\ DRY_RUN \in BOOLEAN
  /\ markets \in [ExchangeNames -> BotMarkets]
  /\ NoCallYet

\* What is remembered of the calls of find_opportunities when one more, of
\* find_opportunities(t), ends
Remember(t) ==
  /\ grew' = opportunities_found' - opportunities_found
  /\ repeated' = (result # None /\ t = tickers)

\* A direct call of find_opportunities(t)
FindOpportunities(t) ==
  /\ calls < MaxCalls
  /\ \E r \in {find_opportunities(min_profit_percentage, now, t)} :
       /\ result' = r
       /\ opportunities_found' = FoundAfter(opportunities_found, r)
       /\ returned_total' =
            (IF IsRaise(r) THEN returned_total
             ELSE returned_total + Len(r.returned))
  /\ Remember(t)
  /\ tickers' = t
  /\ calls' = calls + 1
  /\ UNCHANGED <<min_profit_percentage, opportunities_executed, now, bot_vars,
                 sizing>>

\* run_iteration ends in display_prices, which raised
IterationEndsInDisplay ==
  /\ opportunities' = None
  /\ orders' = <<>>
  /\ warned' = FALSE
  /\ execute_result' = None
  /\ UNCHANGED <<opportunities_found, opportunities_executed, scan_vars,
                 executions, successes, stats>>

\* run_iteration from find_opportunities(t) on, which ended with r
IterationScans(t, r) ==
  /\ tickers' = t
  /\ result' = r
  /\ opportunities_found' = FoundAfter(opportunities_found, r)
  /\ Remember(t)
  /\ returned_total' =
       (IF IsRaise(r) THEN returned_total
        ELSE returned_total + Len(r.returned))
  /\ IF IsRaise(r) \/ r.returned = <<>>
     THEN /\ opportunities' = (IF IsRaise(r) THEN None ELSE List(<<>>))
          /\ orders' = <<>>
          /\ warned' = FALSE
          /\ execute_result' = None
          /\ UNCHANGED <<opportunities_executed, executions, successes>>
     ELSE \E sorted \in {SortOpportunities(r.returned)} :
          \E buy_created \in CreateOutcomes :
          \E sell_created \in CreateOutcomes :
          \E e \in {execute_arbitrage(DRY_RUN, markets, sorted[1],
                                      buy_created, sell_created)} :
            /\ opportunities' = List(sorted)
            /\ orders' = e.orders
            /\ warned' = e.warned
            /\ execute_result' = Bool(e.returned)
            /\ opportunities_executed' = opportunities_executed + e.executed
            /\ executions' = executions + 1
            /\ successes' = successes + (IF e.returned THEN 1 ELSE 0)
  /\ stats' = (IF IsRaise(r) THEN stats
               ELSE get_statistics(opportunities_found',
                                   opportunities_executed'))

\* One run_iteration of the bot; fetched is what each exchange's
\* fetch_ticker does in it.
RunIteration(fetched) ==
  /\ calls < MaxCalls
  /\ calls' = calls + 1
  /\ iteration_count' = iteration_count + 1
  /\ \E t \in {fetch_prices(markets, fetched)} :
       IF IsRaise(display_prices(t))
       THEN IterationEndsInDisplay
       ELSE \E r \in {find_opportunities(min_profit_percentage, now, t)} :
              IterationScans(t, r)
  /\ UNCHANGED <<min_profit_percentage, now, DRY_RUN, markets, sizing>>

\* Time passes between two calls: the next datetime.now() reads later
Tick ==
  /\ now < calls
  /\ calls < MaxCalls
  /\ now' = now + 1
  /\ UNCHANGED <<detector_vars, scan_vars, calls, bot_vars, sizing>>

Next ==
  \/ \E t \in TickerInputs : FindOpportunities(t)
  \/ Tick

Spec == Init /\ [][Next]_vars

\* Balances a caller may hold: of quote currency on the buy exchange, of the
\* base currency on the sell exchange (get_balance gives 1000.0 in a dry run
\* and 0.0 when it fails)
Balances == {Rat(0, 1), Rat(50, 1), Rat(1000, 1)}

\* The tickers given to the scans whose opportunities are sized
SizerTickerValues ==
  {FirstTicker({PairSlashUSDT}, f, 1) :
     f \in {QuoteA, QuoteB, QuoteCrossed, QuoteNegative, QuoteFlat}}

\* A call of calculate_optimal_trade_amount on the i-th opportunity of the
\* last scan
CalculateOptimalTradeAmount(i, buy_balance, sell_balance) ==
  /\ result # None
  /\ ~IsRaise(result)
  /\ i \in 1..Len(result.returned)
  /\ sizing' =
       [opportunity |-> result.returned[i],
        buy_balance |-> buy_balance,
        sell_balance |-> sell_balance,
        amount |-> calculate_optimal_trade_amount(result.returned[i],
                                                  buy_balance, sell_balance)]
  /\ UNCHANGED <<detector_vars, now, scan_vars, calls, bot_vars>>

SizerNext ==
  \/ \E t \in [ExchangeNames -> SizerTickerValues] : FindOpportunities(t)
  \/ \E i \in 1..2 : \E buy_balance \in Balances :
       \E sell_balance \in Balances :
         CalculateOptimalTradeAmount(i, buy_balance, sell_balance)

SizerSpec == Init /\ [][SizerNext]_vars

\* A call of get_statistics outside run_iteration (as stop makes)
GetStatistics ==
  /\ stats' = get_statistics(opportunities_found, opportunities_executed)
  /\ UNCHANGED <<detector_vars, now, scan_vars, calls, DRY_RUN, markets,
                 iteration_count, opportunities, orders, warned,
                 execute_result, executions, successes, sizing>>

BotNext ==
  \/ \E fetched \in [ExchangeNames -> BotFetched] : RunIteration(fetched)
  \/ GetStatistics
  \/ Tick

BotSpec == BotInit /\ [][BotNext]_vars

\* ------------------------------------------------------------------------
\* Properties
\* ------------------------------------------------------------------------

\* The last call of find_opportunities returned a list
Returned == result # None /\ ~IsRaise(result)

\* A snapshot that is present and carries the keys of a ticker
WellFormed(t) == t # None /\ {"symbol", "bid", "ask"} \subseteq DOMAIN t

\* A snapshot valid for detection: present, with bid and with ask
ValidSnapshot(t) == WellFormed(t) /\ t.bid # None /\ t.ask # None

\* The opportunities of the returned list that buy on a and sell on b
Between(a, b) ==
  {i \in 1..Len(result.returned) :
     /\ result.returned[i].buy_exchange = a
     /\ result.returned[i].sell_exchange = b}

\* (sell - buy) / buy * 100 - 0.2 as the fraction NetNum / NetDen, NetDen > 0,
\* for buy # 0: (500 (sell - buy) - buy) / (5 buy)
Sign(x) == IF x < 0 THEN -1 ELSE 1

NetNum(buy, sell) ==
  Sign(buy.n) * (500 * (sell.n * buy.d - buy.n * sell.d) - sell.d * buy.n)

NetDen(buy, sell) == Sign(buy.n) * 5 * sell.d * buy.n

\* the net profit percent of buying at buy and selling at sell is >= m
NetAtLeast(buy, sell, m) ==
  NetNum(buy, sell) * m.d >= m.n * NetDen(buy, sell)

\* The symbol of a snapshot names a base and a quote currency: 'XLM/USDT'
PairIdWellFormed(t) == Len(Split(t.symbol)) = 2

C2_ThresholdMet ==
  Returned =>
    /\ \A i \in 1..Len(result.returned) :
         LET pp == result.returned[i].profit_percentage
         IN  pp.n * min_profit_percentage.d >= min_profit_percentage.n * pp.d
    /\ \A a \in ExchangeNames : \A b \in ExchangeNames \ {a} :
         (/\ ValidSnapshot(tickers[a])
          /\ ValidSnapshot(tickers[b])
          /\ tickers[a].ask.n # 0
          /\ ~NetAtLeast(tickers[a].ask, tickers[b].bid,
                         min_profit_percentage))
         => Between(a, b) = {}

\* under a threshold of 4 given to the constructor, a scan returned one
\* direction and dropped the other, whose net profit percent lies between
\* Config.MIN_PROFIT_PERCENTAGE and 4
C2_Witness ==
  /\ Returned
  /\ min_profit_percentage = Rat(4, 1)
  /\ Len(result.returned) = 1
  /\ \E a \in ExchangeNames : \E b \in ExchangeNames \ {a} :
       /\ ValidSnapshot(tickers[a])
       /\ ValidSnapshot(tickers[b])
       /\ tickers[a].ask.n > 0
       /\ NetAtLeast(tickers[a].ask, tickers[b].bid, MIN_PROFIT_PERCENTAGE)
       /\ ~NetAtLeast(tickers[a].ask, tickers[b].bid, min_profit_percentage)
       /\ Between(a, b) = {}

\* A snapshot that lacks bid or lacks ask (or is absent altogether)
LacksQuote(t) ==
  \/ t = None
  \/ "bid" \notin DOMAIN t
  \/ "ask" \notin DOMAIN t
  \/ t.bid = None
  \/ t.ask = None

\* C3: a venue whose snapshot lacks bid or lacks ask is excluded before
\* pairing: no returned opportunity buys on it or sells on it.
C3_MissingQuoteExcluded ==
  Returned =>
    \A i \in 1..Len(result.returned) :
      /\ ~LacksQuote(tickers[result.returned[i].buy_exchange])
      /\ ~LacksQuote(tickers[result.returned[i].sell_exchange])

\* C4: a scan of a snapshot set with fewer than 2 valid entries returns the
\* empty list and leaves opportunities_found as it was.
C4_FewerThanTwoValidIsEmpty ==
  [][(/\ calls' = calls + 1
      /\ Cardinality({ex \in ExchangeNames : ~LacksQuote(tickers'[ex])}) < 2)
     => (/\ result' = Return(<<>>)
         /\ opportunities_found' = opportunities_found)]_vars

\* C5: no returned opportunity has buy_price <= 0 or sell_price <= 0.
C5_NoNonPositivePrice ==
  Returned =>
    \A i \in 1..Len(result.returned) :
      /\ result.returned[i].buy_price.n > 0
      /\ result.returned[i].sell_price.n > 0

\* C6: the evaluator never raises, so find_opportunities always returns.
C6_NeverRaises == ~IsRaise(result)

\* C7: no returned opportunity pairs two snapshots whose quote currencies
\* (the part of the symbol after the slash) differ.
C7_SameQuoteCurrency ==
  Returned =>
    \A i \in 1..Len(result.returned) :
      LET buy_ticker == tickers[result.returned[i].buy_exchange]
          sell_ticker == tickers[result.returned[i].sell_exchange]
      IN  ("symbol" \in DOMAIN sell_ticker
           /\ Len(Split(buy_ticker.symbol)) = 2
           /\ Len(Split(sell_ticker.symbol)) = 2)
          => Split(buy_ticker.symbol)[2] = Split(sell_ticker.symbol)[2]

\* C8: the scan pairs no venue with itself, and no returned opportunity has
\* buy_exchange = sell_exchange.
C8_DistinctVenues ==
  Returned =>
    /\ \A i \in 1..Len(result.returned) :
         result.returned[i].buy_exchange # result.returned[i].sell_exchange
    /\ LET pairs == ExchangePairs(ValidExchanges(tickers))
       IN  \A k \in 1..Len(pairs) : pairs[k][1] # pairs[k][2]

\* a scan over a crossed top of book (bid above ask on one venue), which a
\* venue paired with itself would turn into an opportunity, returned one
\* opportunity in each direction
C8_Witness ==
  /\ Returned
  /\ \E ex \in ExchangeNames :
       /\ ~LacksQuote(tickers[ex])
       /\ RGt(tickers[ex].bid, tickers[ex].ask)
       /\ RGt(tickers[ex].ask, Rat(0, 1))
  /\ Len(result.returned) = 2
  /\ result.returned[1].buy_exchange = result.returned[2].sell_exchange
  /\ result.returned[1].sell_exchange = result.returned[2].buy_exchange

\* The venues in the order of their identifiers
VenueRank(ex) == IF ex = "binance" THEN 1 ELSE 2

\* a is not ranked below b: netProfitPercent descending, then
\* estimatedProfitAmount descending, then the venue-pair identifier
NotRankedBelow(a, b) ==
  \/ RGt(a.profit_percentage, b.profit_percentage)
  \/ /\ a.profit_percentage = b.profit_percentage
     /\ \/ RGt(a.estimated_profit, b.estimated_profit)
        \/ /\ a.estimated_profit = b.estimated_profit
           /\ \/ VenueRank(a.buy_exchange) < VenueRank(b.buy_exchange)
              \/ /\ a.buy_exchange = b.buy_exchange
                 /\ VenueRank(a.sell_exchange) <= VenueRank(b.sell_exchange)

Range(s) == {s[i] : i \in DOMAIN s}

\* b holds the elements of a, each as often as a does
SameElements(a, b) ==
  /\ Len(a) = Len(b)
  /\ \A x \in Range(a) \cup Range(b) :
       Cardinality({i \in DOMAIN a : a[i] = x})
         = Cardinality({i \in DOMAIN b : b[i] = x})

\* C9 as stated: the sequence find_opportunities returns is ordered by
\* netProfitPercent descending, ties broken by estimatedProfitAmount
\* descending and then by venue-pair identifier: every element is not ranked
\* below the one after it.
C9_ScanResultOrdered ==
  Returned =>
    \A i \in 1..(Len(result.returned) - 1) :
      NotRankedBelow(result.returned[i], result.returned[i + 1])

\* The place of x in s
IndexOf(s, x) == CHOOSE i \in DOMAIN s : s[i] = x

\* C9 amended: the list run_iteration has after sorting what the scan
\* returned holds the same opportunities ordered by netProfitPercent
\* descending: no element's netProfitPercent is below that of the one after
\* it, and elements of equal netProfitPercent keep the order the scan
\* returned them in.
C9_SortedByNetProfit ==
  opportunities # None =>
    /\ SameElements(result.returned, opportunities.list)
    /\ \A i \in 1..(Len(opportunities.list) - 1) :
         LET a == opportunities.list[i]
             b == opportunities.list[i + 1]
         IN  /\ RGe(a.profit_percentage, b.profit_percentage)
             /\ a.profit_percentage = b.profit_percentage
                  => IndexOf(result.returned, a) < IndexOf(result.returned, b)

\* run_iteration sorted two opportunities the scan returned in the other
\* order
C9_Witness ==
  /\ opportunities # None
  /\ Len(opportunities.list) = 2
  /\ opportunities.list # result.returned
  /\ RGt(opportunities.list[1].profit_percentage,
         opportunities.list[2].profit_percentage)

\* C10: opportunities_found equals the sum of the lengths of the lists
\* returned so far (each call adds the number it returns; never reset).
C10_FoundCountsReturned == opportunities_found = returned_total

\* two calls, one returning one opportunity and one returning two
C10_Witness ==
  /\ calls = 2
  /\ Returned
  /\ Len(result.returned) = 1
  /\ opportunities_found = 3

\* A call of find_opportunities that follows another on the same detector and
\* is given the same tickers
RepeatedCall == calls' = calls + 1 /\ result # None /\ tickers' = tickers

\* C11 as stated: two consecutive calls of find_opportunities with the
\* identical snapshot set return identical sequences, every field of every
\* element equal, and opportunities_found grows by the same amount on each.
C11_RepeatedScanIdentical ==
  [][RepeatedCall => (result' = result /\ grew' = grew)]_vars

\* r without the timestamps of its opportunities
WithoutTimestamps(r) ==
  IF IsRaise(r) THEN r
  ELSE Return([i \in 1..Len(r.returned) |->
                 [f \in DOMAIN r.returned[i] \ {"timestamp"} |->
                    r.returned[i][f]]])

\* C11 amended: two consecutive calls of find_opportunities with the identical
\* snapshot set end alike, with the same elements in the same order and the
\* same field values except the timestamp, which is each call's own reading
\* of the clock, and opportunities_found grows by the same amount on each.
C11_RepeatedScanSameButTimestamps ==
  [][RepeatedCall
       => (/\ WithoutTimestamps(result') = WithoutTimestamps(result)
           /\ grew' = grew)]_vars

\* the second of two calls with the same tickers, made after the clock moved
\* on, returned an opportunity, stamped later than the first call's
C11_Witness ==
  /\ repeated
  /\ now = 1
  /\ Returned
  /\ Len(result.returned) >= 1
  /\ result.returned[1].timestamp = 1
  /\ grew = Len(result.returned)

\* The last call of calculate_optimal_trade_amount returned a number
Sized == sizing # None /\ ~IsRaise(sizing.amount)

\* C12: the quantity calculate_optimal_trade_amount returns does not exceed
\* min(buy_balance / buy_price, sell_balance).
C12_WithinBalances ==
  Sized =>
    RGe(RMin(RDiv(sizing.buy_balance, sizing.opportunity.buy_price),
             sizing.sell_balance),
        sizing.amount)

\* C13: calculate_optimal_trade_amount returns a rejection whenever the
\* quantity after the safety margin is <= 0; it never returns a quantity that
\* is zero or negative.
C13_NoQuantityBelowZero ==
  Sized => RGt(sizing.amount, Rat(0, 1))

\* The buy price equals the sell price in both directions: each venue's ask
\* is the other's bid
ZeroSpread(t) ==
  \A a \in ExchangeNames : \A b \in ExchangeNames \ {a} :
    /\ ValidSnapshot(t[a])
    /\ ValidSnapshot(t[b])
    /\ t[a].ask = t[b].bid

\* C14: when the buy price equals the sell price in both directions, neither
\* direction yields an opportunity: find_opportunities returns the empty list
\* and opportunities_found keeps its prior value.
C14_ZeroSpreadYieldsNone ==
  (result # None /\ ZeroSpread(tickers))
    => (result = Return(<<>>) /\ grew = 0)

\* a scan over two venues with the same bid = ask returned nothing, after an
\* earlier scan had counted opportunities
C14_Witness ==
  /\ result # None
  /\ ZeroSpread(tickers)
  /\ tickers["binance"].ask = Rat(1, 10)
  /\ result = Return(<<>>)
  /\ opportunities_found > 0

\* C15 as stated: opportunities_executed equals the number of times
\* run_iteration called execute_arbitrage, whatever became of the orders.
C15_ExecutedCountsAttempts == opportunities_executed = executions

\* C15 amended: opportunities_executed equals the number of calls of
\* execute_arbitrage that returned True, those in which the buy order and
\* the sell order were both placed.
C15_ExecutedCountsSuccesses == opportunities_executed = successes

\* after two iterations that called execute_arbitrage, one call had failed
\* and one had returned True
C15_Witness ==
  /\ executions = 2
  /\ successes = 1
  /\ opportunities_executed = 1

\* C16: get_statistics never raises and reports
\* success_rate = executed / max(found, 1) * 100 for the counters as they are
\* when it is called, 0 when both are 0, and a call that only reads the
\* statistics changes neither counter.
C16_StatisticsReport ==
  /\ [](stats # None
         => /\ ~IsRaise(stats)
            /\ LET found == stats.opportunities_found
                   executed == stats.opportunities_executed
               IN  /\ \/ found = 0 /\ stats.success_rate = Rat(100 * executed, 1)
                      \/ found > 0
                         /\ stats.success_rate = Rat(100 * executed, found)
                   /\ (found = 0 /\ executed = 0)
                        => stats.success_rate = Rat(0, 1))
  /\ [][stats' # stats
          => /\ ~IsRaise(stats')
             /\ stats'.opportunities_found = opportunities_found'
             /\ stats'.opportunities_executed = opportunities_executed'
             /\ calls' = calls
                  => /\ opportunities_found' = opportunities_found
                     /\ opportunities_executed' = opportunities_executed]_vars

\* get_statistics reports one execution out of two opportunities found: 50
\* per cent
C16_Witness ==
  /\ stats # None
  /\ stats.opportunities_found = 2
  /\ stats.opportunities_executed = 1
  /\ stats.success_rate = Rat(50, 1)

\* The last run_iteration called execute_arbitrage
Executed == execute_result # None

\* C17: execute_arbitrage places the buy order first, on the buy exchange, and
\* the sell order only after the buy order returned an order; if the buy order
\* fails no sell order is placed and the result is False; if the buy order
\* succeeds and the sell order fails it warns that manual intervention is
\* needed and the result is False.
C17_TwoLegOrdering ==
  Executed =>
    LET best == opportunities.list[1]
    IN  /\ Len(orders) \in {1, 2}
        /\ orders[1].side = "buy"
        /\ orders[1].exchange = best.buy_exchange
        /\ Len(orders) = 2
             => /\ orders[1].order # None
                /\ orders[2].side = "sell"
                /\ orders[2].exchange = best.sell_exchange
        /\ orders[1].order = None
             => /\ Len(orders) = 1
                /\ execute_result = Bool(FALSE)
        /\ orders[1].order # None => Len(orders) = 2
        /\ (Len(orders) = 2 /\ orders[2].order = None)
             => /\ warned
                /\ execute_result = Bool(FALSE)
        /\ warned => (Len(orders) = 2 /\ orders[2].order = None)

\* the buy order was placed and the sell order failed: the bot warned and
\* execute_arbitrage returned False
C17_Witness ==
  /\ Executed
  /\ Len(orders) = 2
  /\ orders[1].order # None
  /\ orders[2].order = None
  /\ warned
  /\ execute_result = Bool(FALSE)

\* the buy order failed and nothing else was placed
C17_WitnessBuyFailed ==
  /\ Executed
  /\ Len(orders) = 1
  /\ orders[1].order = None

\* C18: in every state the polling loop reaches,
\* opportunities_executed <= opportunities_found, so the success rate
\* reported lies between 0 and 100; an iteration executes at most one
\* opportunity, and only one its own scan returned and counted.
C18_ExecutedAtMostFound ==
  /\ [](/\ opportunities_executed <= opportunities_found
        /\ opportunities_executed >= 0
        /\ stats # None
             => /\ RGe(stats.success_rate, Rat(0, 1))
                /\ RGe(Rat(100, 1), stats.success_rate))
  /\ [][/\ executions' \in {executions, executions + 1}
        /\ opportunities_executed'
             \in {opportunities_executed, opportunities_executed + 1}
        /\ opportunities_executed' # opportunities_executed
             => executions' = executions + 1
        /\ executions' = executions + 1
             => /\ opportunities_found' > opportunities_found
                /\ \E i \in 1..Len(result'.returned) :
                     result'.returned[i] = opportunities'.list[1]]_vars

\* every opportunity found so far was executed: the first iteration found
\* one and executed it, the success rate reported is 100
C18_Witness ==
  /\ opportunities_found = 1
  /\ opportunities_executed = 1
  /\ executions = 1
  /\ stats # None
  /\ stats.success_rate = Rat(100, 1)

====
